---- MODULE Spec2Model ----
(***************************************************************************)
(* Model of the API-backed extraction path of extraction_api:              *)
(*   ocr.py    cached / extract_proof / _call_anthropic_api / clear_cache  *)
(*   views.py  hash_result / ExtractView.post                              *)
(* Python values are tagged tuples, a dict is an ordered sequence of       *)
(* <<key, value>> pairs (insertion order, as in CPython), and a call that  *)
(* may raise returns <<"ok", v>> or <<"raise", exception name>>.           *)
(* Confidence scores are counted in tenths (0.5 is 5).                     *)
(***************************************************************************)
EXTENDS Integers, Sequences, FiniteSets, TLC

\* ---------------------------------------------------------------- bounds
NumBytes == 2
NumProcs == 2

Bytes == 1..NumBytes
Procs == 1..NumProcs

\* ------------------------------------------------------- python values
JNull == <<"null">>
JStr(s) == <<"str", s>>
JNum(n) == <<"num", n>>
JBool(b) == <<"bool", b>>
JList(items) == <<"list", items>>
JObj(pairs) == <<"obj", pairs>>

Ok(v) == <<"ok", v>>
Raise(e) == <<"raise", e>>
IsOk(r) == r[1] = "ok"

\* bool(v); a text is empty as "" and as the empty sequence of characters
Truthy(v) ==
    CASE v[1] = "null" -> FALSE
      [] v[1] = "bool" -> v[2]
      [] v[1] = "num"  -> v[2] # 0
      [] v[1] = "str"  -> v[2] # ""
      [] v[1] = "list" -> Len(v[2]) > 0
      [] v[1] = "obj"  -> Len(v[2]) > 0
      [] OTHER -> TRUE

\* dict operations --------------------------------------------------------
DictKeys(d) == {d[2][i][1] : i \in 1..Len(d[2])}
DictHas(d, k) == k \in DictKeys(d)
DictIndex(d, k) == CHOOSE i \in 1..Len(d[2]) : d[2][i][1] = k
\* d[k] for a key that is present
DictAt(d, k) == d[2][DictIndex(d, k)][2]
\* d.get(k): None when absent
DictGet(d, k) == IF DictHas(d, k) THEN DictAt(d, k) ELSE JNull
\* d[k] = v: in place when the key exists, appended otherwise
DictSet(d, k, v) ==
    IF DictHas(d, k)
      THEN JObj([i \in 1..Len(d[2]) |-> IF d[2][i][1] = k THEN <<k, v>> ELSE d[2][i]])
      ELSE JObj(Append(d[2], <<k, v>>))
\* d.copy(): a new dict with the same items in the same order
DictCopy(d) == JObj(d[2])

\* v[k] with a string key, on any value
GetItem(v, k) ==
    CASE v[1] = "obj"  -> IF DictHas(v, k) THEN Ok(DictAt(v, k)) ELSE Raise("KeyError")
      [] OTHER -> Raise("TypeError")
\* v[0] on any value
GetFirst(v) ==
    CASE v[1] = "list" -> IF Len(v[2]) > 0 THEN Ok(v[2][1]) ELSE Raise("IndexError")
      [] v[1] = "obj"  -> Raise("KeyError")
      [] v[1] = "text" -> Ok(JStr("?"))
      [] OTHER -> Raise("TypeError")

\* ------------------------------------------------------------- prompts
PROMPTS == {"job", "certificate", "skill", "milestone", "contribution"}

\* the fields each prompt declares, in the order the prompt lists them
DeclaredFields(pt) ==
    CASE pt = "job" ->
           <<"job_title", "company", "employment_type", "date_range", "location", "job_category">>
      [] pt = "certificate" ->
           <<"certificate_title", "issuer", "completion_date", "credential_type", "program_category">>
      [] pt = "skill" ->
           <<"skill_name", "skill_category", "proficiency_level", "evidence_type">>
      [] pt = "milestone" ->
           <<"milestone_type", "issuer", "date", "milestone_summary">>
      [] pt = "contribution" ->
           <<"contribution_type", "platform_name", "date", "title", "url">>
      [] OTHER -> <<>>

\* --------------------------------------------------------------- cache
_image_hash(image_bytes) == <<"sha256", image_bytes>>

\* ------------------------------------------------------ _parse_response
FenceJson == <<"fence_json">>
Fence == <<"fence">>
IsNotFence(line) == line \notin {FenceJson, Fence}

\* re.sub(r"^```json|^```|```$", "", raw.strip(), flags=re.MULTILINE).strip()
StripFences(lines) == SelectSeq(lines, IsNotFence)

\* json.loads: one JSON document, nothing else
JsonLoadsLenient(lines) ==
    IF Len(lines) = 1 /\ lines[1][1] = "json" THEN Ok(lines[1][2])
    ELSE Ok(JObj(<<>>))
JsonLoads(lines) ==
    IF Len(lines) = 1 /\ lines[1][1] = "json" THEN Ok(lines[1][2])
    ELSE Raise("JSONDecodeError")

ParseErrorMutant == "TransientAPIError"
ParseError == "PermanentAPIError"

_parse_response(raw) ==
    IF raw[1] # "text" THEN Raise("AttributeError")
    ELSE LET loaded == JsonLoads(StripFences(raw[2]))
         IN IF IsOk(loaded) THEN loaded ELSE Raise(ParseError)

\* ----------------------------------------------- _low_confidence_fields
Threshold == 5

Below(score) == score < Threshold

\* (score or 0) < threshold, or the TypeError of an unordered comparison
ScoreIsLow(score) ==
    LET s == IF Truthy(score) THEN score ELSE JNum(0)
    IN CASE s[1] = "num"  -> Ok(Below(s[2]))
         [] s[1] = "bool" -> Ok(Below(10))
         [] OTHER -> Raise("TypeError")

_low_confidence_fields(result) ==
    IF result[1] # "obj" THEN Raise("AttributeError")
    ELSE
      LET got    == DictGet(result, "confidence")
          scores == IF Truthy(got) THEN got ELSE JObj(<<>>)
      IN IF scores[1] # "obj" THEN Raise("AttributeError")
         ELSE IF \E i \in 1..Len(scores[2]) : ~IsOk(ScoreIsLow(scores[2][i][2]))
           THEN Raise("TypeError")
           ELSE LET IsLow(item) == ScoreIsLow(item[2])[2]
                    low == SelectSeq(scores[2], IsLow)
                IN Ok([i \in 1..Len(low) |-> JStr(low[i][1])])

\* ----------------------------------------------------- hash_result (view)
MetaKeys == {"needs_review", "low_confidence_fields", "confidence", "cache_hit", "proof_type"}

\* every key a result can hold, in the order Python sorts strings
LexOrder ==
    <<"cache_hit", "certificate_title", "company", "completion_date", "confidence",
      "contribution_type", "credential_type", "date", "date_range", "employment_type",
      "evidence_type", "issuer", "job_category", "job_title", "location",
      "low_confidence_fields", "milestone_summary", "milestone_type", "needs_review",
      "platform_name", "proficiency_level", "program_category", "proof_type",
      "skill_category", "skill_name", "title", "url">>

\* the items of a dict ordered by key
SortKeys(pairs) ==
    LET keys       == {pairs[i][1] : i \in 1..Len(pairs)}
        Present(k) == k \in keys
        sorted     == SelectSeq(LexOrder, Present)
        ValueOf(k) == pairs[CHOOSE i \in 1..Len(pairs) : pairs[i][1] = k][2]
    IN [m \in 1..Len(sorted) |-> <<sorted[m], ValueOf(sorted[m])>>]

\* json.dumps(d): the items in the dict's own order
JsonDumps(d) == <<"json", d[2]>>
\* json.dumps(d, sort_keys=True)
JsonDumpsSorted(d) == <<"json", SortKeys(d[2])>>

\* hashlib.sha256(text.encode()).hexdigest(): one digest per text
Sha256Hex(text) == <<"hex", <<"sha256", text>>>>

IsDataItem(item) == item[1] \notin MetaKeys

\* the digest without sort_keys: the items in the dict's own order, as
\* generate_hash of extractor.py joins its values
hash_result_unsorted(data) ==
    Sha256Hex(JsonDumps(JObj(SelectSeq(data[2], IsDataItem))))

hash_result(data) ==
    LET clean == JObj(SelectSeq(data[2], IsDataItem))
    IN Sha256Hex(JsonDumpsSorted(clean))

\* ------------------------------------------------- the external service
Reverse(s) == [i \in 1..Len(s) |-> s[Len(s) + 1 - i]]

\* what a document of the given kind holds under key f: the field values
\* of a job or a skill answer, or one of five confidence maps
Pick(kind, f) ==
    CASE kind = "job" ->
           (CASE f = "job_title"       -> JStr("Community Lead")
              [] f = "company"         -> JStr("EkoLance")
              [] f = "employment_type" -> JStr("part-time")
              [] f = "date_range"      -> JStr("Nov 2022 - Jan 2025")
              [] f = "location"        -> JNull
              [] f = "job_category"    -> JStr("Community"))
      [] kind = "skill" ->
           (CASE f = "skill_name"        -> JStr("Python")
              [] f = "skill_category"    -> JStr("Programming")
              [] f = "proficiency_level" -> JNull
              [] f = "evidence_type"     -> JStr("GitHub Activity"))
      [] kind = "high"  -> JNum(9)
      [] kind = "other" -> JNum(8)
      [] kind = "jobMixed" ->
           (CASE f = "job_title" -> JNum(5)
              [] f = "company"   -> JNum(4)
              [] f = "location"  -> JNull
              [] OTHER -> JNum(9))
      [] kind = "skillMixed" -> (IF f = "proficiency_level" THEN JNum(2) ELSE JNum(9))
      [] kind = "worded" -> JStr("high")

Items(fields, kind) == [i \in 1..Len(fields) |-> <<fields[i], Pick(kind, fields[i])>>]

JobFields == DeclaredFields("job")
SkillFields == DeclaredFields("skill")

\* the model's answers, as JSON documents
JobA == JObj(Append(Items(JobFields, "job"), <<"confidence", JObj(Items(JobFields, "high"))>>))
JobB == JObj(<< <<"confidence", JObj(Items(Reverse(JobFields), "other"))>> >>
             \o Items(Reverse(JobFields), "job"))
JobC == JObj(Append(Items(JobFields, "job"), <<"confidence", JObj(Items(JobFields, "jobMixed"))>>))
JobD == JObj(Append(Items(JobFields, "job"),
                    <<"confidence", JObj(Items(SubSeq(JobFields, 1, 5), "high"))>>))
JobE == JObj(Items(JobFields, "job"))
JobS == JObj(Append(Items(JobFields, "job"), <<"confidence", JObj(Items(JobFields, "worded"))>>))
SkillA == JObj(Append(Items(SkillFields, "skill"), <<"confidence", JObj(Items(SkillFields, "high"))>>))
SkillC == JObj(Append(Items(SkillFields, "skill"), <<"confidence", JObj(Items(SkillFields, "skillMixed"))>>))

Plain(doc) == <<"text", << <<"json", doc>> >> >>
Fenced(doc) == <<"text", <<FenceJson, <<"json", doc>>, Fence>> >>
Garbage == <<"text", << <<"garbage">> >> >>
FencedGarbage == <<"text", <<Fence, <<"garbage">>, Fence>> >>

GoodDocs(pt) ==
    CASE pt = "job"   -> {JobA, JobB, JobC, JobD, JobE}
      [] pt = "skill" -> {SkillA, SkillC}
      [] OTHER -> {}

\* the texts the model may answer with for a prompt
ServiceTexts(pt) ==
    {Plain(d) : d \in GoodDocs(pt)} \cup {Fenced(d) : d \in GoodDocs(pt)}
      \cup {Garbage, FencedGarbage, Plain(JList(<<>>)), Plain(JobS)}

\* the body of a messages reply holding one text block
Message(text) ==
    JObj(<< <<"content", JList(<< JObj(<< <<"type", JStr("text")>>, <<"text", text>> >>) >>)>> >>)

InvalidBody == <<"invalid">>
JsonBody(doc) == <<"json", doc>>

NetworkFailures == {[kind |-> k, status |-> 0, body |-> InvalidBody] : k \in {"timeout", "connection"}}
ErrorStatuses == {400, 401, 403, 404, 429, 500, 503}
Http(status, body) == [kind |-> "http", status |-> status, body |-> body]

\* what one request to the service can come back with
ServiceReplies(pt) ==
    NetworkFailures
      \cup {Http(s, InvalidBody) : s \in ErrorStatuses}
      \cup {Http(200, JsonBody(Message(t))) : t \in ServiceTexts(pt)}
      \cup {Http(200, InvalidBody),
            Http(200, JsonBody(JObj(<<>>))),
            Http(200, JsonBody(JObj(<< <<"content", JList(<<>>)>> >>))),
            Http(200, JsonBody(Message(JNull))),
            Http(300, InvalidBody)}
      \cup {Http(300, JsonBody(Message(Plain(d)))) : d \in GoodDocs(pt) \cap {JobA, SkillA}}

\* --------------------------------------------------- _call_anthropic_api
\* response.raise_for_status(): HTTPError for 4xx and 5xx only
RaisesForStatus(status) == 400 <= status /\ status < 600

\* one attempt: the body of _call_anthropic_api
CallOnce(reply) ==
    CASE reply.kind = "timeout"    -> Raise("TransientAPIError")
      [] reply.kind = "connection" -> Raise("TransientAPIError")
      [] OTHER ->
           IF reply.status = 429 THEN Raise("TransientAPIError")
           ELSE IF 500 <= reply.status /\ reply.status < 600 THEN Raise("TransientAPIError")
           ELSE IF reply.status = 401 THEN Raise("PermanentAPIError")
           ELSE IF reply.status = 400 THEN Raise("PermanentAPIError")
           ELSE IF RaisesForStatus(reply.status) THEN Raise("PermanentAPIError")
           ELSE IF reply.body = InvalidBody THEN Raise("PermanentAPIError")
           ELSE Ok(reply.body[2])

\* stop_after_attempt(3), retry_if_exception_type(TransientAPIError)
MaxAttempts == 3

ShouldRetryMutant(exc, attempt_number) ==
    exc \in {"TransientAPIError", "PermanentAPIError"} /\ attempt_number < MaxAttempts
ShouldRetry(exc, attempt_number) ==
    exc = "TransientAPIError" /\ attempt_number < MaxAttempts

\* ---------------------------------------------------------- extract_proof
NeedsReviewMutant(low_fields) == Len(low_fields) > 1
NeedsReview(low_fields) == Len(low_fields) > 0

\* api_response["content"][0]["text"]
RawText(api_response) ==
    LET content == GetItem(api_response, "content")
    IN IF ~IsOk(content) THEN content
       ELSE LET block == GetFirst(content[2])
            IN IF ~IsOk(block) THEN block ELSE GetItem(block[2], "text")

\* extract_proof after the service call returned: lines 330-338
ExtractFromResponse(api_response, proof_type) ==
    LET raw_text == RawText(api_response)
    IN IF ~IsOk(raw_text) THEN raw_text
       ELSE LET result == _parse_response(raw_text[2])
            IN IF ~IsOk(result) THEN result
               ELSE LET low_fields == _low_confidence_fields(result[2])
                    IN IF ~IsOk(low_fields) THEN low_fields
                       ELSE Ok(DictSet(DictSet(DictSet(result[2],
                                 "needs_review", JBool(NeedsReview(low_fields[2]))),
                                 "low_confidence_fields", JList(low_fields[2])),
                                 "proof_type", JStr(proof_type)))

\* ------------------------------------------------------------------ state
VARIABLES
    ANTHROPIC_API_KEY,  \* the credential read from the environment at import
    _CACHE,             \* cache key -> stored result, or Absent
    pc,                 \* where each request is
    req,                \* the request's file bytes and proof_type
    attempts,           \* tenacity's attempt number of the running call
    attemptLog,         \* how each attempt of the running call ended
    lastReply,          \* kind and status of the latest service reply
    api_response,       \* the parsed body _call_anthropic_api returned
    outcome,            \* what extract_proof returned or raised
    response,           \* the HTTP response of ExtractView.post
    hadEntry,           \* whether the cache held the bytes when the call began
    firstResult,        \* per cache key, the result the storing call returned
    waits,              \* the sleeps tenacity made between the call's attempts
    afterWriters,       \* whether the call began with its bytes cached and no
                        \* call for the same bytes on its way to the cache
    stats,              \* the running get_cache_stats call
    call                \* a call of a pure helper: its input, then its output

vars == <<ANTHROPIC_API_KEY, _CACHE, pc, req, attempts, attemptLog, lastReply,
          api_response, outcome, response, hadEntry, firstResult, waits,
          afterWriters, stats, call>>

Absent == <<"absent">>
CacheKeys == {_image_hash(b) : b \in Bytes}

NoReq == [bytes |-> 0, proof_type |-> ""]
NoReply == [kind |-> "none", status |-> 0]
NoOutcome == <<"none">>
NoResponse == [status |-> 0, body |-> JNull]
NoStats == [pc |-> "idle"]
NoCall == [fn |-> "none"]

\* what a test client may send as proof_type; "" is a missing form field
RequestProofTypes == {"job", "skill", "resume", ""}
ApiKeys == {JNull, JStr(""), JStr("sk-ant-key")}

Init ==
    /\ ANTHROPIC_API_KEY \in ApiKeys
    /\ _CACHE = [k \in CacheKeys |-> Absent]
    /\ pc = [p \in Procs |-> "idle"]
    /\ req = [p \in Procs |-> NoReq]
    /\ attempts = [p \in Procs |-> 0]
    /\ attemptLog = [p \in Procs |-> <<>>]
    /\ lastReply = [p \in Procs |-> NoReply]
    /\ api_response = [p \in Procs |-> JNull]
    /\ outcome = [p \in Procs |-> NoOutcome]
    /\ response = [p \in Procs |-> NoResponse]
    /\ hadEntry = [p \in Procs |-> FALSE]
    /\ firstResult = [k \in CacheKeys |-> Absent]
    /\ waits = [p \in Procs |-> <<>>]
    /\ afterWriters = [p \in Procs |-> FALSE]
    /\ stats = NoStats
    /\ call = NoCall

\* ------------------------------------------------------ ExtractView.post
\* the statement after extract_proof returned: lines 123-133
HashGateMutant(result) == hash_result(result)
HashGate(result) ==
    IF ~Truthy(DictAt(result, "needs_review")) THEN hash_result(result) ELSE JNull

SuccessBody(result, proof_type) ==
    JObj(<< <<"proof_type", JStr(proof_type)>>,
            <<"extracted_data", result>>,
            <<"needs_review", DictAt(result, "needs_review")>>,
            <<"flagged_fields", DictAt(result, "low_confidence_fields")>>,
            <<"validation_hash", HashGate(result)>>,
            <<"cached", IF DictHas(result, "cache_hit") THEN DictAt(result, "cache_hit")
                        ELSE JBool(FALSE)>> >>)

\* the response the view gives for what extract_proof returned or raised;
\* an exception the view does not catch becomes the framework's 500
ViewResponse(ret, proof_type) ==
    IF IsOk(ret) THEN [status |-> 200, body |-> SuccessBody(ret[2], proof_type)]
    ELSE IF ret[2] = "PermanentAPIError" THEN [status |-> 400, body |-> JStr(ret[2])]
    ELSE IF ret[2] = "TransientAPIError" THEN [status |-> 503, body |-> JStr(ret[2])]
    ELSE [status |-> 500, body |-> JStr(ret[2])]

\* extract_proof ends for p with ret, and the view answers
Finish(p, ret) ==
    /\ pc' = [pc EXCEPT ![p] = "done"]
    /\ outcome' = [outcome EXCEPT ![p] = ret]
    /\ response' = [response EXCEPT ![p] = ViewResponse(ret, req[p].proof_type)]

\* one request at a time: no other request is being served
Serial(p) == \A q \in Procs \ {p} : pc[q] = "idle"

\* post(): lines 100-116, up to the call of extract_proof, for a request
\* whose file is one of files and whose proof_type is one of types
PostFrom(p, files, types) ==
    /\ pc[p] = "idle"
    /\ \E hasFile \in BOOLEAN, b \in files, pt \in types :
         /\ req' = [req EXCEPT ![p] = [bytes |-> b, proof_type |-> pt]]
         /\ hadEntry' = [hadEntry EXCEPT ![p] = hasFile /\ pt # "" /\ _CACHE[_image_hash(b)] # Absent]
         /\ afterWriters' = [afterWriters EXCEPT ![p] =
                               /\ hasFile /\ pt # "" /\ _CACHE[_image_hash(b)] # Absent
                               /\ \A q \in Procs \ {p} :
                                    pc[q] \in {"wrapper", "call", "parse"} => req[q].bytes # b]
         /\ IF ~hasFile \/ pt = ""
              THEN /\ pc' = [pc EXCEPT ![p] = "done"]
                   /\ response' = [response EXCEPT ![p] = [status |-> 400, body |-> JStr("bad request")]]
              ELSE /\ pc' = [pc EXCEPT ![p] = "wrapper"]
                   /\ UNCHANGED response
    /\ UNCHANGED <<stats, call, ANTHROPIC_API_KEY, _CACHE, attempts, attemptLog, lastReply,
                   api_response, outcome, firstResult, waits>>

Post(p) == Serial(p) /\ PostFrom(p, Bytes, RequestProofTypes)

\* ------------------------------------------------------- cached.wrapper
\* wrapper, line 160: the membership test; on a miss func is entered and
\* extract_proof checks the credential and the proof type (lines 316-322).
\* Resolving the MIME type, encoding the bytes and picking the prompt
\* (lines 324-327) cannot fail and change no state.
InCacheMutant(cache_key) == FALSE
\* cache_key in _CACHE
InCache(cache_key) == _CACHE[cache_key] # Absent

CacheLookup(p) ==
    /\ pc[p] = "wrapper"
    /\ LET cache_key == _image_hash(req[p].bytes)
       IN IF InCache(cache_key)
            THEN /\ pc' = [pc EXCEPT ![p] = "hit"]
                 /\ UNCHANGED <<outcome, response>>
          ELSE IF ~Truthy(ANTHROPIC_API_KEY)
            THEN Finish(p, Raise("PermanentAPIError"))
          ELSE IF req[p].proof_type \notin PROMPTS
            THEN Finish(p, Raise("PermanentAPIError"))
          ELSE /\ pc' = [pc EXCEPT ![p] = "call"]
               /\ UNCHANGED <<outcome, response>>
    /\ UNCHANGED <<stats, call, afterWriters, ANTHROPIC_API_KEY, _CACHE, req, attempts, attemptLog, lastReply,
                   api_response, hadEntry, firstResult, waits>>

\* wrapper, lines 161-163: read the entry, copy it, flag it, return it
HitFlagMutant == JBool(FALSE)
HitFlag == JBool(TRUE)

CacheRead(p) ==
    /\ pc[p] = "hit"
    /\ LET cache_key == _image_hash(req[p].bytes)
       IN IF _CACHE[cache_key] = Absent
            THEN Finish(p, Raise("KeyError"))
            ELSE Finish(p, Ok(DictSet(DictCopy(_CACHE[cache_key]), "cache_hit", HitFlag)))
    /\ UNCHANGED <<stats, call, afterWriters, ANTHROPIC_API_KEY, _CACHE, req, attempts, attemptLog, lastReply,
                   api_response, hadEntry, firstResult, waits>>

\* ------------------------------------------- _call_anthropic_api, retried
Classify(once) ==
    IF IsOk(once) THEN "response"
    ELSE IF once[2] = "TransientAPIError" THEN "transient"
    ELSE IF once[2] = "PermanentAPIError" THEN "permanent"
    ELSE "other"

\* tenacity's wait_exponential(multiplier=1, min=2, max=10) after attempt
\* number attempt_number: multiplier * 2^(attempt_number - 1), held between
\* min and max
WaitMultiplier == 1
WaitMin == 2
WaitMax == 10
Max2(a, b) == IF a >= b THEN a ELSE b
Min2(a, b) == IF a <= b THEN a ELSE b
WaitExponential(attempt_number) ==
    Max2(Max2(0, WaitMin), Min2(WaitMultiplier * 2^(attempt_number - 1), WaitMax))

\* one attempt, answered by one of replies; a transient failure below the
\* bound sleeps and tries again, any other failure is re-raised through
\* extract_proof to the view
AttemptFrom(p, replies) ==
    /\ pc[p] = "call"
    /\ \E reply \in replies :
         LET once == CallOnce(reply)
             n    == attempts[p] + 1
         IN /\ attempts' = [attempts EXCEPT ![p] = n]
            /\ attemptLog' = [attemptLog EXCEPT ![p] = Append(@, Classify(once))]
            /\ lastReply' = [lastReply EXCEPT ![p] = [kind |-> reply.kind, status |-> reply.status]]
            /\ IF IsOk(once)
                 THEN /\ pc' = [pc EXCEPT ![p] = "parse"]
                      /\ api_response' = [api_response EXCEPT ![p] = once[2]]
                      /\ UNCHANGED <<outcome, response, waits>>
               ELSE IF ShouldRetry(once[2], n)
                 THEN /\ waits' = [waits EXCEPT ![p] = Append(@, WaitExponential(n))]
                      /\ UNCHANGED <<pc, api_response, outcome, response>>
               ELSE /\ Finish(p, once)
                    /\ UNCHANGED <<api_response, waits>>
    /\ UNCHANGED <<stats, call, afterWriters, ANTHROPIC_API_KEY, _CACHE, req, hadEntry, firstResult>>

Attempt(p) == AttemptFrom(p, ServiceReplies(req[p].proof_type))

StoreSingleSlot(cache, cache_key, result) ==
    [k \in CacheKeys |-> IF k = cache_key THEN DictCopy(result) ELSE Absent]
StoreFirstWins(cache, cache_key, result) ==
    IF cache[cache_key] # Absent THEN cache
    ELSE [cache EXCEPT ![cache_key] = DictCopy(result)]
\* _CACHE[cache_key] = result.copy()
Store(cache, cache_key, result) == [cache EXCEPT ![cache_key] = DictCopy(result)]

\* extract_proof lines 330-338, then wrapper lines 166-168: flag the result,
\* store a copy under the content hash, return it to the view
Parse(p) ==
    /\ pc[p] = "parse"
    /\ LET cache_key == _image_hash(req[p].bytes)
           result    == ExtractFromResponse(api_response[p], req[p].proof_type)
       IN IF ~IsOk(result)
            THEN /\ Finish(p, result)
                 /\ UNCHANGED <<_CACHE, firstResult>>
            ELSE LET flagged == DictSet(result[2], "cache_hit", JBool(FALSE))
                 IN /\ _CACHE' = Store(_CACHE, cache_key, flagged)
                    /\ firstResult' = [firstResult EXCEPT ![cache_key] = flagged]
                    /\ Finish(p, Ok(flagged))
    /\ UNCHANGED <<stats, call, afterWriters, ANTHROPIC_API_KEY, req, attempts, attemptLog, lastReply,
                   api_response, hadEntry, waits>>

\* the response is sent; the worker is free for the next request
Return(p) ==
    /\ pc[p] = "done"
    /\ pc' = [pc EXCEPT ![p] = "idle"]
    /\ req' = [req EXCEPT ![p] = NoReq]
    /\ attempts' = [attempts EXCEPT ![p] = 0]
    /\ attemptLog' = [attemptLog EXCEPT ![p] = <<>>]
    /\ lastReply' = [lastReply EXCEPT ![p] = NoReply]
    /\ api_response' = [api_response EXCEPT ![p] = JNull]
    /\ outcome' = [outcome EXCEPT ![p] = NoOutcome]
    /\ response' = [response EXCEPT ![p] = NoResponse]
    /\ hadEntry' = [hadEntry EXCEPT ![p] = FALSE]
    /\ waits' = [waits EXCEPT ![p] = <<>>]
    /\ afterWriters' = [afterWriters EXCEPT ![p] = FALSE]
    /\ UNCHANGED <<stats, call, ANTHROPIC_API_KEY, _CACHE, firstResult>>

\* clear_cache(), called between requests
ClearCache ==
    /\ \A p \in Procs : pc[p] = "idle"
    /\ \E k \in CacheKeys : _CACHE[k] # Absent
    /\ _CACHE' = [k \in CacheKeys |-> Absent]
    /\ firstResult' = [k \in CacheKeys |-> Absent]
    /\ UNCHANGED <<stats, call, afterWriters, ANTHROPIC_API_KEY, pc, req, attempts, attemptLog, lastReply,
                   api_response, outcome, response, hadEntry, waits>>

Next ==
    \/ \E p \in Procs : Post(p)
    \/ \E p \in Procs : CacheLookup(p)
    \/ \E p \in Procs : CacheRead(p)
    \/ \E p \in Procs : Attempt(p)
    \/ \E p \in Procs : Parse(p)
    \/ \E p \in Procs : Return(p)
    \/ ClearCache

Spec == Init /\ [][Next]_vars

\* --------------------------------------- a caller that edits its result
\* wrapper lines 161 and 167 copy with dict.copy(), which copies the dict
\* and none of its values: the confidence dict and the low_confidence_fields
\* list of a returned result are the very objects the cache entry holds.
\* The caller's edits of a returned result, each made at most once:
\*   result["confidence"][f] = 0.0          (inside the shared dict)
\*   result["low_confidence_fields"].append("edited")   (the shared list)
\*   result["proof_type"] = "edited"        (the caller's own dict)
EditedFields == {"job_title"}
EditConfidence(d, f) ==
    DictSet(d, "confidence", DictSet(DictAt(d, "confidence"), f, JNum(0)))
EditLowFields(d) ==
    DictSet(d, "low_confidence_fields",
            JList(Append(DictAt(d, "low_confidence_fields")[2], JStr("edited"))))

CallerMutates(p) ==
    /\ pc[p] = "done"
    /\ outcome[p] # NoOutcome /\ IsOk(outcome[p])
    /\ LET cache_key == _image_hash(req[p].bytes)
           result    == outcome[p][2]
           entry     == _CACHE[cache_key]
       IN /\ entry # Absent
          /\ \/ /\ DictGet(result, "confidence")[1] = "obj"
                /\ \E f \in DictKeys(DictAt(result, "confidence")) \cap EditedFields :
                     /\ DictAt(DictAt(result, "confidence"), f) # JNum(0)
                     /\ outcome' = [outcome EXCEPT ![p] = Ok(EditConfidence(result, f))]
                     /\ _CACHE' = [_CACHE EXCEPT ![cache_key] = EditConfidence(entry, f)]
             \/ /\ JStr("edited") \notin
                      {DictAt(result, "low_confidence_fields")[2][i] :
                         i \in 1..Len(DictAt(result, "low_confidence_fields")[2])}
                /\ outcome' = [outcome EXCEPT ![p] = Ok(EditLowFields(result))]
                /\ _CACHE' = [_CACHE EXCEPT ![cache_key] = EditLowFields(entry)]
             \/ /\ DictAt(result, "proof_type") # JStr("edited")
                /\ outcome' = [outcome EXCEPT ![p] =
                                 Ok(DictSet(result, "proof_type", JStr("edited")))]
                /\ UNCHANGED _CACHE
    /\ UNCHANGED <<stats, call, afterWriters, ANTHROPIC_API_KEY, pc, req, attempts, attemptLog,
                   lastReply, api_response, response, hadEntry, firstResult, waits>>

\* the requests of the runs that follow a caller or several workers: job
\* proofs, answered by one of two documents or by a failure of either kind
FewProofTypes == {"job"}
FewReplies ==
    {Http(200, JsonBody(Message(Plain(JobA)))),
     Http(200, JsonBody(Message(Plain(JobC)))),
     Http(401, InvalidBody),
     Http(503, InvalidBody)}

MutPost(p) == Serial(p) /\ PostFrom(p, Bytes, FewProofTypes)
MutAttempt(p) == AttemptFrom(p, FewReplies)

MutNext ==
    \/ \E p \in Procs : MutPost(p)
    \/ \E p \in Procs : CacheLookup(p)
    \/ \E p \in Procs : CacheRead(p)
    \/ \E p \in Procs : MutAttempt(p)
    \/ \E p \in Procs : Parse(p)
    \/ \E p \in Procs : Return(p)
    \/ \E p \in Procs : CallerMutates(p)
    \/ ClearCache

MutSpec == Init /\ [][MutNext]_vars

\* ------------------------------------------- requests served in parallel
\* worker threads share _CACHE; each step of cached.wrapper and of
\* extract_proof is one step of its thread, in any order with the others
ConcPost(p) == PostFrom(p, Bytes, FewProofTypes)
ConcAttempt(p) == AttemptFrom(p, FewReplies)

\* the workers all receive the same file
SameBytes == {1}
RacePost(p) == PostFrom(p, SameBytes, FewProofTypes)

RaceNext ==
    \/ \E p \in Procs : RacePost(p)
    \/ \E p \in Procs : CacheLookup(p)
    \/ \E p \in Procs : CacheRead(p)
    \/ \E p \in Procs : ConcAttempt(p)
    \/ \E p \in Procs : Parse(p)
    \/ \E p \in Procs : Return(p)

RaceSpec == Init /\ [][RaceNext]_vars

\* clear_cache() while requests are being served
ConcClear ==
    /\ \E k \in CacheKeys : _CACHE[k] # Absent
    /\ _CACHE' = [k \in CacheKeys |-> Absent]
    /\ firstResult' = [k \in CacheKeys |-> Absent]
    /\ UNCHANGED <<stats, call, afterWriters, ANTHROPIC_API_KEY, pc, req, attempts,
                   attemptLog, lastReply, api_response, outcome, response, hadEntry,
                   waits>>

\* len(_CACHE)
CacheLen == Cardinality({k \in CacheKeys : _CACHE[k] # Absent})

\* get_cache_stats(), lines 354-356: len(_CACHE), then the iterator of
\* _CACHE.values() is made; it remembers the dict's size
StatsBegin ==
    /\ stats = NoStats
    /\ stats' = [pc |-> "iter", cached_entries |-> CacheLen, used |-> CacheLen, pos |-> 0]
    /\ UNCHANGED <<call, afterWriters, ANTHROPIC_API_KEY, _CACHE, pc, req, attempts,
                   attemptLog, lastReply, api_response, outcome, response, hadEntry,
                   firstResult, waits>>

\* one next() of the values iterator inside sum(): RuntimeError when the
\* dict's size is not the remembered one, the next value (dumped, encoded
\* and measured between two next() calls) while there is one, else the end
StatsStep ==
    /\ stats.pc = "iter"
    /\ IF CacheLen # stats.used
         THEN stats' = [pc |-> "done", out |-> Raise("RuntimeError")]
       ELSE IF stats.pos < stats.used
         THEN stats' = [stats EXCEPT !.pos = @ + 1]
       ELSE stats' = [pc |-> "done", out |-> Ok(stats.cached_entries)]
    /\ UNCHANGED <<call, afterWriters, ANTHROPIC_API_KEY, _CACHE, pc, req, attempts,
                   attemptLog, lastReply, api_response, outcome, response, hadEntry,
                   firstResult, waits>>

StatsReturn ==
    /\ stats.pc = "done"
    /\ stats' = NoStats
    /\ UNCHANGED <<call, afterWriters, ANTHROPIC_API_KEY, _CACHE, pc, req, attempts,
                   attemptLog, lastReply, api_response, outcome, response, hadEntry,
                   firstResult, waits>>

ConcNext ==
    \/ \E p \in Procs : ConcPost(p)
    \/ \E p \in Procs : CacheLookup(p)
    \/ \E p \in Procs : CacheRead(p)
    \/ \E p \in Procs : ConcAttempt(p)
    \/ \E p \in Procs : Parse(p)
    \/ \E p \in Procs : Return(p)
    \/ ConcClear
    \/ StatsBegin
    \/ StatsStep
    \/ StatsReturn

ConcSpec == Init /\ [][ConcNext]_vars

\* ---------------------------------------------------- _resolve_mime_type
\* a str is the sequence of its characters
UpperCase == <<"A", "B", "C", "D", "E", "F", "G", "H", "I", "J", "K", "L", "M",
               "N", "O", "P", "Q", "R", "S", "T", "U", "V", "W", "X", "Y", "Z">>
LowerCase == <<"a", "b", "c", "d", "e", "f", "g", "h", "i", "j", "k", "l", "m",
               "n", "o", "p", "q", "r", "s", "t", "u", "v", "w", "x", "y", "z">>
LowerCharOf(c) ==
    IF \E i \in 1..Len(UpperCase) : UpperCase[i] = c
      THEN LowerCase[CHOOSE i \in 1..Len(UpperCase) : UpperCase[i] = c]
      ELSE c
\* s.lower()
Lower(str) == [i \in 1..Len(str) |-> LowerCharOf(str[i])]
\* c in s, for a one-character c
Contains(str, c) == \E i \in 1..Len(str) : str[i] = c
RSplitLastMutant(str, c) ==
    IF \A i \in 1..Len(str) : str[i] # c THEN str
    ELSE LET first == CHOOSE i \in 1..Len(str) :
                        str[i] = c /\ \A j \in 1..(i - 1) : str[j] # c
         IN SubSeq(str, first + 1, Len(str))
\* s.rsplit(c, 1)[-1]: what follows the last c, the whole of s without one
RSplitLast(str, c) ==
    IF ~Contains(str, c) THEN str
    ELSE LET last == CHOOSE i \in 1..Len(str) :
                       str[i] = c /\ \A j \in (i + 1)..Len(str) : str[j] # c
         IN SubSeq(str, last + 1, Len(str))

allowed == {"image/jpeg", "image/png", "image/gif", "image/webp", "application/pdf"}


\* the dict of lines 197-204 with its .get(ext, "image/jpeg")
ExtensionType(ext) ==
    CASE ext = <<"j", "p", "g">>  -> "image/jpeg"
      [] ext = <<"j", "p", "e", "g">> -> "image/jpeg"
      [] ext = <<"p", "n", "g">>  -> "image/png"
      [] ext = <<"g", "i", "f">>  -> "image/gif"
      [] ext = <<"w", "e", "b", "p">> -> "image/webp"
      [] ext = <<"p", "d", "f">>  -> "application/pdf"
      [] OTHER -> "image/jpeg"

_resolve_mime_type(mime_type, filename) ==
    IF mime_type \in allowed THEN mime_type
    ELSE LET ext == IF Contains(filename, ".") THEN Lower(RSplitLast(filename, "."))
                    ELSE <<>>
         IN ExtensionType(ext)

\* the content types and file names of uploads
DeclaredTypes ==
    allowed \cup {"", "IMAGE/PNG", "image/jpg", "text/plain", "application/octet-stream"}
Filenames ==
    {<<>>, <<"s", "c", "a", "n">>, <<"p", "n", "g">>, <<"s", "c", "a", "n">> \o <<".">>, <<".">> \o <<"g", "i", "f">>, <<".">>,
     <<"s", "c", "a", "n">> \o <<".">> \o <<"t", "x", "t">>,
     <<"s", "c", "a", "n">> \o <<".">> \o <<"p", "d", "f">> \o <<".">> \o <<"p", "n", "g">>,
     <<"s", "c", "a", "n">> \o <<".">> \o <<"p", "n", "g">> \o <<".">> \o <<"t", "x", "t">>,
     <<"s", "c", "a", "n">> \o <<".">> \o <<"p", "n", "g">> \o <<".">>}
      \cup {<<"s", "c", "a", "n">> \o <<".">> \o e :
              e \in {<<"j", "p", "g">>, <<"j", "p", "e", "g">>, <<"p", "n", "g">>, <<"g", "i", "f">>, <<"w", "e", "b", "p">>, <<"p", "d", "f">>,
                     <<"P", "N", "G">>, <<"J", "p", "g">>, <<"P", "D", "F">>}}

\* nothing but the helper runs
Quiet ==
    /\ ANTHROPIC_API_KEY = JNull
    /\ _CACHE = [k \in CacheKeys |-> Absent]
    /\ pc = [p \in Procs |-> "idle"]
    /\ req = [p \in Procs |-> NoReq]
    /\ attempts = [p \in Procs |-> 0]
    /\ attemptLog = [p \in Procs |-> <<>>]
    /\ lastReply = [p \in Procs |-> NoReply]
    /\ api_response = [p \in Procs |-> JNull]
    /\ outcome = [p \in Procs |-> NoOutcome]
    /\ response = [p \in Procs |-> NoResponse]
    /\ hadEntry = [p \in Procs |-> FALSE]
    /\ firstResult = [k \in CacheKeys |-> Absent]
    /\ waits = [p \in Procs |-> <<>>]
    /\ afterWriters = [p \in Procs |-> FALSE]
    /\ stats = NoStats

MimeInit ==
    /\ Quiet
    /\ \E mime_type \in DeclaredTypes, filename \in Filenames :
         call = [fn |-> "_resolve_mime_type", pc |-> "called",
                 mime_type |-> mime_type, filename |-> filename]

ResolveMime ==
    /\ call.fn = "_resolve_mime_type" /\ call.pc = "called"
    /\ call' = [fn |-> call.fn, pc |-> "returned",
                mime_type |-> call.mime_type, filename |-> call.filename,
                out |-> _resolve_mime_type(call.mime_type, call.filename)]
    /\ UNCHANGED <<ANTHROPIC_API_KEY, _CACHE, pc, req, attempts, attemptLog, lastReply,
                   api_response, outcome, response, hadEntry, firstResult, waits,
                   afterWriters, stats>>

MimeNext == ResolveMime

MimeSpec == MimeInit /\ [][MimeNext]_vars


\* ------------------------------------------------- text, as characters
NL == "\n"
\* the character classes of the patterns: \s, [A-Z], [a-z], letters, \d, \w
InClass(c, class) ==
    CASE class = "space"  -> c \in {" ", "\t", NL}
      [] class = "upper"  -> \E i \in 1..Len(UpperCase) : UpperCase[i] = c
      [] class = "lower"  -> \E i \in 1..Len(LowerCase) : LowerCase[i] = c
      [] class = "letter" -> \E i \in 1..Len(UpperCase) : UpperCase[i] = c \/ LowerCase[i] = c
      [] class = "digit"  -> c \in {"0", "1", "2", "3", "4", "5", "6", "7", "8", "9"}
      [] class = "word"   ->
           \/ \E i \in 1..Len(UpperCase) : UpperCase[i] = c \/ LowerCase[i] = c
           \/ c \in {"0", "1", "2", "3", "4", "5", "6", "7", "8", "9", "_"}

MinOf(S) == CHOOSE i \in S : \A j \in S : i <= j
MaxOf(S) == CHOOSE i \in S : \A j \in S : i >= j

\* s.strip()
Strip(str) ==
    LET inked == {i \in 1..Len(str) : ~InClass(str[i], "space")}
    IN IF inked = {} THEN <<>> ELSE SubSeq(str, MinOf(inked), MaxOf(inked))

\* needle in hay
StartsAt(hay, needle, i) ==
    /\ i + Len(needle) - 1 <= Len(hay)
    /\ \A k \in 1..Len(needle) : hay[i + k - 1] = needle[k]
Substring(hay, needle) == \E i \in 1..(Len(hay) + 1) : StartsAt(hay, needle, i)

\* s.split(c): the pieces between the occurrences of c
RECURSIVE SplitOn(_, _)
SplitOn(str, c) ==
    IF ~Contains(str, c) THEN <<str>>
    ELSE LET first == MinOf({i \in 1..Len(str) : str[i] = c})
         IN <<SubSeq(str, 1, first - 1)>> \o SplitOn(SubSeq(str, first + 1, Len(str)), c)

NotEmpty(str) == str # <<>>
\* [l.strip() for l in text.splitlines() if l.strip()]
StrippedLines(text) ==
    LET pieces == SplitOn(text, NL)
    IN SelectSeq([i \in 1..Len(pieces) |-> Strip(pieces[i])], NotEmpty)

\* s.isupper(): a cased character, and no lower-case one
IsUpper(str) ==
    /\ \E i \in 1..Len(str) : InClass(str[i], "upper")
    /\ \A i \in 1..Len(str) : ~InClass(str[i], "lower")

\* where the run of characters of one class that begins at i ends: the
\* first position from i on that is past the end or holds another character
RunEnd(str, i, class) ==
    MinOf({j \in i..(Len(str) + 1) : j = Len(str) + 1 \/ ~InClass(str[j], class)})


\* ------------------------------------------------------ shared patterns
EMPLOYMENT_TYPES ==
    <<<<"f", "u", "l", "l", "-", "t", "i", "m", "e">>,
      <<"p", "a", "r", "t", "-", "t", "i", "m", "e">>,
      <<"c", "o", "n", "t", "r", "a", "c", "t">>,
      <<"f", "r", "e", "e", "l", "a", "n", "c", "e">>,
      <<"i", "n", "t", "e", "r", "n", "s", "h", "i", "p">>,
      <<"s", "e", "a", "s", "o", "n", "a", "l">>,
      <<"s", "e", "l", "f", "-", "e", "m", "p", "l", "o", "y", "e", "d">>,
      <<"r", "e", "m", "o", "t", "e">>>>

\* any(t in s.lower() for t in EMPLOYMENT_TYPES)
HasEmploymentType(str) ==
    \E n \in 1..Len(EMPLOYMENT_TYPES) : Substring(Lower(str), EMPLOYMENT_TYPES[n])

\* the characters outside ASCII, by code point
Midot == "U+00B7"
Bullet == "U+2022"
BlackCircle == "U+25CF"
EnDash == "U+2013"

\* MONTH, matched ignoring case: a month's first three letters, then letters
MonthStarts ==
    {<<"j", "a", "n">>,
     <<"f", "e", "b">>,
     <<"m", "a", "r">>,
     <<"a", "p", "r">>,
     <<"m", "a", "y">>,
     <<"j", "u", "n">>,
     <<"j", "u", "l">>,
     <<"a", "u", "g">>,
     <<"s", "e", "p">>,
     <<"o", "c", "t">>,
     <<"n", "o", "v">>,
     <<"d", "e", "c">>}
MonthAt(str, i) == i + 2 <= Len(str) /\ Lower(SubSeq(str, i, i + 2)) \in MonthStarts
\* YEAR: \d{4}
YearAt(str, i) == i + 3 <= Len(str) /\ \A k \in i..(i + 3) : InClass(str[k], "digit")

\* DATE = (?:MONTH\s+)?YEAR matched at i: the position after it, 0 for no
\* match. The month, when there is one, takes its letters and the spaces
\* after them; a year cannot begin where a month does.
DateEnd(str, i) ==
    IF i > Len(str) THEN 0
    ELSE IF MonthAt(str, i)
      THEN LET afterLetters == RunEnd(str, i + 3, "letter")
               afterSpaces  == RunEnd(str, afterLetters, "space")
           IN IF afterSpaces > afterLetters /\ YearAt(str, afterSpaces)
                THEN afterSpaces + 4 ELSE 0
    ELSE IF YearAt(str, i) THEN i + 4
    ELSE 0

NoMatch == [found |-> FALSE]

\* the second alternative of DATE_RANGE_PAT's last group, tried where DATE
\* did not match (dateEnd = 0): the word Present in any case
DateOrPresentEnd(str, start2, dateEnd) ==
    IF dateEnd # 0 THEN dateEnd
    ELSE IF /\ start2 + 6 <= Len(str)
            /\ Lower(SubSeq(str, start2, start2 + 6)) = <<"p", "r", "e", "s", "e", "n", "t">>
      THEN start2 + 7
    ELSE 0

\* the match object: both groups of a match from i, the first date ending
\* before end1 and the second running from start2 to before end2
RangeMatch(str, i, end1, start2, end2) ==
    IF end2 = 0 THEN NoMatch
    ELSE [found |-> TRUE,
          group1 |-> SubSeq(str, i, end1 - 1),
          group2 |-> SubSeq(str, start2, end2 - 1)]

\* \s*[-U+2013]\s*(DATE|Present) after a first date that ends before end1
RangeAfter(str, i, end1, dash) ==
    IF end1 = 0 \/ dash > Len(str) THEN NoMatch
    ELSE IF str[dash] \notin {"-", EnDash} THEN NoMatch
    ELSE RangeMatch(str, i, end1, RunEnd(str, dash + 1, "space"),
                    DateOrPresentEnd(str, RunEnd(str, dash + 1, "space"),
                                     DateEnd(str, RunEnd(str, dash + 1, "space"))))

\* DATE_RANGE_PAT matched at i: (DATE)\s*[-U+2013]\s*(DATE|Present), ignoring case
RangeAt(str, i) ==
    RangeAfter(str, i, DateEnd(str, i), RunEnd(str, DateEnd(str, i), "space"))

\* the match at the leftmost of the places where DATE_RANGE_PAT matches
LeftmostRange(str, starts) ==
    IF starts = {} THEN NoMatch ELSE RangeAt(str, MinOf(starts))

\* DATE_RANGE_PAT.search(s): the leftmost match
DATE_RANGE_PAT(str) ==
    LeftmostRange(str, {i \in 1..Len(str) : RangeAt(str, i).found})

\* f"{m.group(1)} - {m.group(2)}"
DateRangeText(m) == m.group1 \o <<" ", "-", " ">> \o m.group2

\* --------------------------------------------------------- detect_schema
HeadLen == 300

\* re.search(r'[U+00B7 U+2022]', head)
HasSeparator(str) == \E i \in 1..Len(str) : str[i] \in {Midot, Bullet}

\* a word boundary after position i: no word character follows
BoundaryAfter(str, i) == i = Len(str) \/ ~InClass(str[i + 1], "word")

\* re.search(r'\d+\s+yrs?\b|\d+\s+mos?\b', text): a digit, spaces, then
\* yr or mo with an optional s, ending a word
UnitAt(str, i) ==
    /\ i + 1 <= Len(str)
    /\ SubSeq(str, i, i + 1) \in {<<"y", "r">>, <<"m", "o">>}
    /\ \/ BoundaryAfter(str, i + 1)
       \/ i + 2 <= Len(str) /\ str[i + 2] = "s" /\ BoundaryAfter(str, i + 2)
HasDuration(str) ==
    \E i \in 1..Len(str) :
      /\ InClass(str[i], "digit")
      /\ LET unit == RunEnd(str, i + 1, "space")
         IN unit > i + 1 /\ UnitAt(str, unit)

\* re.match(r'^[A-Z][A-Z\s\d\.\-]{8,}$', first)
CapsHeader(str) ==
    /\ Len(str) >= 9
    /\ InClass(str[1], "upper")
    /\ \A i \in 2..Len(str) :
         InClass(str[i], "upper") \/ InClass(str[i], "space") \/ InClass(str[i], "digit") \/ str[i] \in {".", "-"}

\* re.search(r'^\s*[U+2022 U+25CF \-\*]', text, re.MULTILINE): a bullet character with
\* nothing but white space between it and the start of a line
HasBullet(str) ==
    \E q \in 1..Len(str) :
      /\ str[q] \in {Bullet, BlackCircle, "-", "*"}
      /\ \E p \in 1..q :
           /\ p = 1 \/ str[p - 1] = NL
           /\ \A k \in p..(q - 1) : InClass(str[k], "space")

NoLinesMutant(lines) == FALSE
\* not lines
NoLines(lines) == lines = <<>>

detect_schema(text) ==
    LET head  == SubSeq(text, 1, Min2(HeadLen, Len(text)))
        lines == StrippedLines(text)
    IN IF NoLines(lines) THEN Ok("generic")
       ELSE IF lines = <<>> THEN Raise("IndexError")
       ELSE
         LET first          == lines[1]
             has_midot      == HasSeparator(head)
             has_duration   == HasDuration(text)
             has_type_on_l2 == Len(lines) > 1 /\ HasEmploymentType(lines[2])
             is_caps_header == IsUpper(first) \/ CapsHeader(first)
             has_bullet     == HasBullet(text)
             date_on_line1  == DATE_RANGE_PAT(first).found
         IN IF has_midot /\ (has_duration \/ has_type_on_l2) THEN Ok("linkedin")
            ELSE IF is_caps_header /\ (has_bullet \/ date_on_line1) THEN Ok("resume_block")
            ELSE IF is_caps_header /\ DATE_RANGE_PAT(text).found THEN Ok("resume_block")
            ELSE Ok("generic")


\* "\n".join(lines)
RECURSIVE JoinLines(_)
JoinLines(lines) ==
    IF lines = <<>> THEN <<>>
    ELSE IF Len(lines) = 1 THEN lines[1]
    ELSE lines[1] \o <<NL>> \o JoinLines(Tail(lines))

\* the texts of at most MaxLines lines, each taken from vocabulary
MaxLines == 3
TextsOf(vocabulary) ==
    {JoinLines(lines) : lines \in UNION {[1..n -> vocabulary] : n \in 0..MaxLines}}

\* the lines the texts given to detect_schema are made of: a title, a
\* company and type, a date range, a duration, a capitals header, a bullet
\* line, a blank line, a capitals date range, a place and type
SchemaLines ==
    {<<"C", "o", "m", "m", "u", "n", "i", "t", "y", " ", "L", "e", "a", "d">>,
     <<"E", "k", "o", "L", "a", "n", "c", "e", " ", Midot, " ", "p", "a", "r", "t", "-", "t", "i", "m", "e">>,
     <<"N", "o", "v", " ", "2", "0", "2", "2", " ", "-", " ", "J", "a", "n", " ", "2", "0", "2", "5">>,
     <<"2", " ", "y", "r", "s", " ", "3", " ", "m", "o", "s">>,
     <<"A", "C", "M", "E", " ", "L", "A", "B", "S", " ", "L", "T", "D">>,
     <<"-", " ", "B", "u", "i", "l", "t", " ", "t", "h", "e", " ", "s", "i", "t", "e">>,
     <<" ", " ", " ">>,
     <<"M", "A", "R", "C", "H", " ", "2", "0", "2", "1", " ", "-", " ", "J", "U", "N", "E", " ", "2", "0", "2", "2">>,
     <<"G", "e", "r", "m", "a", "n", "y", " ", Bullet, " ", "R", "e", "m", "o", "t", "e">>}

DetectInit ==
    /\ Quiet
    /\ \E text \in TextsOf(SchemaLines) :
         call = [fn |-> "detect_schema", pc |-> "called", text |-> text]

DetectSchema ==
    /\ call.fn = "detect_schema" /\ call.pc = "called"
    /\ call' = [fn |-> call.fn, pc |-> "returned", text |-> call.text,
                out |-> detect_schema(call.text)]
    /\ UNCHANGED <<ANTHROPIC_API_KEY, _CACHE, pc, req, attempts, attemptLog, lastReply,
                   api_response, outcome, response, hadEntry, firstResult, waits,
                   afterWriters, stats>>

\* the same text is classified a second time
DetectAgain ==
    /\ call.fn = "detect_schema" /\ call.pc = "returned"
    /\ call' = [fn |-> call.fn, pc |-> "again", text |-> call.text,
                out |-> call.out, again |-> detect_schema(call.text)]
    /\ UNCHANGED <<ANTHROPIC_API_KEY, _CACHE, pc, req, attempts, attemptLog, lastReply,
                   api_response, outcome, response, hadEntry, firstResult, waits,
                   afterWriters, stats>>

DetectNext == DetectSchema \/ DetectAgain

DetectSpec == DetectInit /\ [][DetectNext]_vars


\* -------------------------------------------------- extract_linkedin_job
\* re.split(LINKEDIN_SEPARATOR, line): the pieces between the separator
\* characters, without the white space next to a separator
RECURSIVE SplitOnSeparator(_)
SplitOnSeparator(str) ==
    IF ~HasSeparator(str) THEN <<str>>
    ELSE LET first == MinOf({i \in 1..Len(str) : str[i] \in {Midot, Bullet}})
             left  == SubSeq(str, 1, first - 1)
             leftEnd == IF \A i \in 1..Len(left) : InClass(left[i], "space") THEN 0
                        ELSE MaxOf({i \in 1..Len(left) : ~InClass(left[i], "space")})
             rest  == SubSeq(str, first + 1, Len(str))
             restStart == RunEnd(rest, 1, "space")
         IN <<SubSeq(left, 1, leftEnd)>>
              \o SplitOnSeparator(SubSeq(rest, restStart, Len(rest)))

\* the inner loop of lines 208-214 on one line: whether a part holds an
\* employment type, that part, and the first of the other parts if any
ScanSplit(parts) ==
    LET matches == {i \in 1..Len(parts) : HasEmploymentType(parts[i])}
    IN IF matches = {} THEN [matched |-> FALSE]
       ELSE LET i == MinOf(matches)
                remaining == [j \in 1..(Len(parts) - 1) |->
                                IF j < i THEN parts[j] ELSE parts[j + 1]]
            IN [matched |-> TRUE,
                employment_type |-> JStr(Strip(parts[i])),
                has_remaining |-> remaining # <<>>,
                company |-> IF remaining # <<>> THEN JStr(Strip(remaining[1])) ELSE JNull]

ScanParts(line) == ScanSplit(SplitOnSeparator(line))

\* the loop of lines 206-216 from line k on, with the values found so far
RECURSIVE ScanCompany(_, _, _, _)
ScanCompany(lines, k, company, employment_type) ==
    IF k > Len(lines) THEN [company |-> company, employment_type |-> employment_type]
    ELSE LET found == ScanParts(lines[k])
         IN IF ~found.matched THEN ScanCompany(lines, k + 1, company, employment_type)
            ELSE LET now == IF found.has_remaining THEN found.company ELSE company
                 IN IF Truthy(now)
                      THEN [company |-> now, employment_type |-> found.employment_type]
                      ELSE ScanCompany(lines, k + 1, now, found.employment_type)

\* the first line DATE_RANGE_PAT matches: its index, 0 for none
DateLine(lines) ==
    LET dated == {i \in 1..Len(lines) : DATE_RANGE_PAT(lines[i]).found}
    IN IF dated = {} THEN 0 ELSE MinOf(dated)

LocationMax == 60

\* lines 199-242 once the text is split: scanned is what the loop of lines
\* 206-216 found, dateLine the line DATE_RANGE_PAT matched first
LinkedinFields(lines, scanned, dateLine) ==
    LET job_title == IF lines # <<>> THEN JStr(lines[1]) ELSE JNull
        date_range == IF dateLine = 0 THEN JNull
                      ELSE JStr(DateRangeText(DATE_RANGE_PAT(lines[dateLine])))
        location  == IF dateLine # 0 /\ dateLine + 1 <= Len(lines)
                        /\ Contains(lines[dateLine + 1], Midot)
                        /\ Len(lines[dateLine + 1]) < LocationMax
                       THEN JStr(lines[dateLine + 1]) ELSE JNull
    IN Ok(JObj(<< <<"schema", JStr(<<"l", "i", "n", "k", "e", "d", "i", "n">>)>>,
                  <<"job_title", job_title>>,
                  <<"company", scanned.company>>,
                  <<"employment_type", scanned.employment_type>>,
                  <<"date_range", date_range>>,
                  <<"location", location>> >>))

extract_linkedin_job(text) ==
    LinkedinFields(StrippedLines(text),
                   ScanCompany(StrippedLines(text), 2, JNull, JNull),
                   DateLine(StrippedLines(text)))

\* --------------------------------------------------- extract_generic_job
\* re.search(r'\b\d{4}\b', s): four digits that are a word of their own
HasYearWord(str) ==
    \E i \in 1..Len(str) :
      /\ YearAt(str, i)
      /\ i = 1 \/ ~InClass(str[i - 1], "word")
      /\ BoundaryAfter(str, i + 3)

TitleMax == 80

\* re.match(r'^[A-Z][a-zA-Z\s&\.,\-]{2,40}$', line)
OrgName(str) ==
    /\ Len(str) >= 3 /\ Len(str) <= 41
    /\ InClass(str[1], "upper")
    /\ \A i \in 2..Len(str) :
         InClass(str[i], "letter") \/ InClass(str[i], "space") \/ str[i] \in {"&", ".", ",", "-"}

\* the first token of EMPLOYMENT_TYPES found in text.lower()
FirstTypeIn(text) ==
    LET found == {n \in 1..Len(EMPLOYMENT_TYPES) : Substring(Lower(text), EMPLOYMENT_TYPES[n])}
    IN IF found = {} THEN JNull ELSE JStr(EMPLOYMENT_TYPES[MinOf(found)])

DateRangeOf(str) ==
    IF DATE_RANGE_PAT(str).found THEN JStr(DateRangeText(DATE_RANGE_PAT(str))) ELSE JNull

extract_generic_job(text) ==
    LET lines    == StrippedLines(text)
        titled   == {i \in 1..Len(lines) : ~HasYearWord(lines[i]) /\ Len(lines[i]) < TitleMax}
        job_title == IF titled # {} THEN JStr(lines[MinOf(titled)])
                     ELSE IF lines # <<>> THEN JStr(lines[1]) ELSE JNull
        orgs     == {i \in 1..Len(lines) : OrgName(lines[i]) /\ JStr(lines[i]) # job_title}
        company  == IF orgs = {} THEN JNull ELSE JStr(lines[MinOf(orgs)])
    IN Ok(JObj(<< <<"schema", JStr(<<"g", "e", "n", "e", "r", "i", "c">>)>>,
                  <<"job_title", job_title>>,
                  <<"company", company>>,
                  <<"employment_type", FirstTypeIn(text)>>,
                  <<"date_range", DateRangeOf(text)>> >>))


\* ---------------------------------------------- extract_resume_block_job
\* re.sub(r'\s*[\(\[].*?[\)\]]', '', s): every stretch from an opening
\* bracket (and the white space before it) to the first closing bracket
\* after it is dropped
RECURSIVE DropBracketed(_)
DropBracketed(str) ==
    LET openers == {o \in 1..Len(str) :
                      /\ str[o] \in {"(", "["}
                      /\ \E c \in (o + 1)..Len(str) : str[c] \in {")", "]"}}
    IN IF openers = {} THEN str
       ELSE LET o == MinOf(openers)
                c == MinOf({k \in (o + 1)..Len(str) : str[k] \in {")", "]"}})
                start == MinOf({i \in 1..o : \A k \in i..(o - 1) : InClass(str[k], "space")})
            IN SubSeq(str, 1, start - 1) \o DropBracketed(SubSeq(str, c + 1, Len(str)))

\* re.sub(r'\s*\d{4}[\s\S]*$', '', s): the first four digits in a row, the
\* white space before them and all that follows are dropped
DropFromYear(str) ==
    LET years == {i \in 1..Len(str) : YearAt(str, i)}
    IN IF years = {} THEN str
       ELSE LET y == MinOf(years)
                start == MinOf({i \in 1..y : \A k \in i..(y - 1) : InClass(str[k], "space")})
            IN SubSeq(str, 1, start - 1)

\* re.match(r'^[U+2022 U+25CF \-\*]', line)
StartsWithBullet(str) == Len(str) >= 1 /\ str[1] \in {Bullet, BlackCircle, "-", "*"}

\* re.search(r'\b(?:Jan|...|Dec|\d{4})\b', s): a three-letter month name
\* or four digits, as a word of their own
ShortMonths ==
    {<<"J", "a", "n">>, <<"F", "e", "b">>, <<"M", "a", "r">>, <<"A", "p", "r">>, <<"M", "a", "y">>, <<"J", "u", "n">>, <<"J", "u", "l">>, <<"A", "u", "g">>, <<"S", "e", "p">>, <<"O", "c", "t">>, <<"N", "o", "v">>, <<"D", "e", "c">>}
HasDateWord(str) ==
    \/ HasYearWord(str)
    \/ \E i \in 1..Len(str) :
         /\ i + 2 <= Len(str) /\ SubSeq(str, i, i + 2) \in ShortMonths
         /\ i = 1 \/ ~InClass(str[i - 1], "word")
         /\ BoundaryAfter(str, i + 2)

DateWordSpan == 20
TypeTagMax == 30

\* the loop of lines 323-335 from line i on (lines counted from 1, so the
\* company line is line 1): the job title, or None
RECURSIVE FindJobTitle(_, _, _)
FindJobTitle(lines, i, dateLine) ==
    IF i > Len(lines) THEN JNull
    ELSE LET line == lines[i]
         IN IF i = dateLine THEN FindJobTitle(lines, i + 1, dateLine)
            ELSE IF StartsWithBullet(line) THEN JNull
            ELSE IF HasDateWord(SubSeq(line, 1, Min2(DateWordSpan, Len(line))))
              THEN FindJobTitle(lines, i + 1, dateLine)
            ELSE IF IsUpper(line) THEN FindJobTitle(lines, i + 1, dateLine)
            ELSE IF HasEmploymentType(line) /\ Len(line) < TypeTagMax
              THEN FindJobTitle(lines, i + 1, dateLine)
            ELSE JStr(line)

extract_resume_block_job(text) ==
    LET lines       == StrippedLines(text)
        raw_company == IF lines # <<>> THEN lines[1] ELSE <<>>
        company     == Strip(DropFromYear(DropBracketed(raw_company)))
        dateLine    == DateLine(lines)
        date_range  == IF dateLine = 0 THEN JNull
                       ELSE JStr(DateRangeText(DATE_RANGE_PAT(lines[dateLine])))
    IN Ok(JObj(<< <<"schema", JStr(<<"r", "e", "s", "u", "m", "e", "_", "b", "l", "o", "c", "k">>)>>,
                  <<"job_title", FindJobTitle(lines, 2, dateLine)>>,
                  <<"company", JStr(company)>>,
                  <<"employment_type", FirstTypeIn(text)>>,
                  <<"date_range", date_range>> >>))

\* --------------------------------------------------- extract_certificate
Unknown == <<"U", "n", "k", "n", "o", "w", "n">>

\* " ".join(lines)
RECURSIVE JoinWithSpace(_)
JoinWithSpace(lines) ==
    IF lines = <<>> THEN <<>>
    ELSE IF Len(lines) = 1 THEN lines[1]
    ELSE lines[1] \o <<" ">> \o JoinWithSpace(Tail(lines))

\* the line after the first line, not the last one, whose lower-case form
\* holds phrase; Unknown for none (the loops of lines 36-54)
LineAfter(lines, phrase) ==
    LET marked == {i \in 1..(Len(lines) - 1) : Substring(Lower(lines[i]), phrase)}
    IN IF marked = {} THEN JStr(Unknown) ELSE JStr(lines[MinOf(marked) + 1])

\* re.search of a literal phrase: the leftmost stretch equal to it, with
\* or without regard to case; Unknown for none
FindPhrase(str, phrase, ignoreCase) ==
    LET at == {i \in 1..Len(str) :
                 /\ i + Len(phrase) - 1 <= Len(str)
                 /\ LET got == SubSeq(str, i, i + Len(phrase) - 1)
                    IN IF ignoreCase THEN Lower(got) = Lower(phrase) ELSE got = phrase}
    IN IF at = {} THEN JStr(Unknown)
       ELSE JStr(SubSeq(str, MinOf(at), MinOf(at) + Len(phrase) - 1))

FullMonths ==
    {<<"J", "a", "n", "u", "a", "r", "y">>,
     <<"F", "e", "b", "r", "u", "a", "r", "y">>,
     <<"M", "a", "r", "c", "h">>,
     <<"A", "p", "r", "i", "l">>,
     <<"M", "a", "y">>,
     <<"J", "u", "n", "e">>,
     <<"J", "u", "l", "y">>,
     <<"A", "u", "g", "u", "s", "t">>,
     <<"S", "e", "p", "t", "e", "m", "b", "e", "r">>,
     <<"O", "c", "t", "o", "b", "e", "r">>,
     <<"N", "o", "v", "e", "m", "b", "e", "r">>,
     <<"D", "e", "c", "e", "m", "b", "e", "r">>}

\* (January|...|December)\s+\d{1,2},\s+\d{4} matched at i: the position
\* after the match, 0 for none
IssueDateEnd(str, i) ==
    LET named == {m \in FullMonths : StartsAt(str, m, i)}
    IN IF named = {} THEN 0
       ELSE LET m == CHOOSE x \in named : \A y \in named : Len(x) >= Len(y)
                spaces == i + Len(m)
                day    == RunEnd(str, spaces, "space")
                comma  == RunEnd(str, day, "digit")
            IN IF day = spaces \/ comma - day \notin {1, 2} THEN 0
               ELSE IF comma > Len(str) \/ str[comma] # "," THEN 0
               ELSE LET year == RunEnd(str, comma + 1, "space")
                    IN IF year > comma + 1 /\ YearAt(str, year) THEN year + 4 ELSE 0

IssueDate(str) ==
    LET at == {i \in 1..Len(str) : IssueDateEnd(str, i) # 0}
    IN IF at = {} THEN JStr(Unknown)
       ELSE JStr(SubSeq(str, MinOf(at), IssueDateEnd(str, MinOf(at)) - 1))

\* re.search(r'https://[^\s]+', s)
VerificationUrl(str) ==
    LET at == {i \in 1..Len(str) :
                 /\ StartsAt(str, <<"h", "t", "t", "p", "s", ":", "/", "/">>, i)
                 /\ i + Len(<<"h", "t", "t", "p", "s", ":", "/", "/">>) <= Len(str) /\ ~InClass(str[i + Len(<<"h", "t", "t", "p", "s", ":", "/", "/">>)], "space")}
    IN IF at = {} THEN JStr(Unknown)
       ELSE LET i == MinOf(at)
                end == MinOf({j \in (i + Len(<<"h", "t", "t", "p", "s", ":", "/", "/">>))..(Len(str) + 1) :
                                j = Len(str) + 1 \/ InClass(str[j], "space")})
            IN JStr(SubSeq(str, i, end - 1))

\* re.search(r'(\d+)\s+hours', s); group(1) + " hours"
ProgramDuration(str) ==
    LET at == {i \in 1..Len(str) :
                 /\ InClass(str[i], "digit")
                 /\ LET spaces == RunEnd(str, i, "digit")
                        word   == RunEnd(str, spaces, "space")
                    IN word > spaces /\ StartsAt(str, <<"h", "o", "u", "r", "s">>, word)}
    IN IF at = {} THEN JStr(Unknown)
       ELSE JStr(SubSeq(str, MinOf(at), RunEnd(str, MinOf(at), "digit") - 1)
                   \o <<" ">> \o <<"h", "o", "u", "r", "s">>)


extract_certificate(text) ==
    LET lines     == StrippedLines(text)
        full_text == JoinWithSpace(lines)
    IN Ok(JObj(<< <<"certificate_title", LineAfter(lines, <<"s", "u", "c", "c", "e", "s", "s", "f", "u", "l", "l", "y", " ", "c", "o", "m", "p", "l", "e", "t", "e", "d">>)>>,
                  <<"recipient_name", LineAfter(lines, <<"c", "e", "r", "t", "i", "f", "i", "e", "s", " ", "t", "h", "a", "t">>)>>,
                  <<"issuer", IF Substring(Lower(full_text), Lower(<<"f", "r", "e", "e", "C", "o", "d", "e", "C", "a", "m", "p">>))
                                THEN JStr(<<"f", "r", "e", "e", "C", "o", "d", "e", "C", "a", "m", "p">>) ELSE JStr(Unknown)>>,
                  <<"issuer_signatory", FindPhrase(full_text, <<"Q", "u", "i", "n", "c", "y", " ", "L", "a", "r", "s", "o", "n">>, FALSE)>>,
                  <<"issuer_title", FindPhrase(full_text, <<"E", "x", "e", "c", "u", "t", "i", "v", "e", " ", "D", "i", "r", "e", "c", "t", "o", "r">>, FALSE)>>,
                  <<"issue_date", IssueDate(full_text)>>,
                  <<"credential_type", FindPhrase(full_text, <<"D", "e", "v", "e", "l", "o", "p", "e", "r", " ", "C", "e", "r", "t", "i", "f", "i", "c", "a", "t", "i", "o", "n">>, TRUE)>>,
                  <<"verification_url", VerificationUrl(full_text)>>,
                  <<"program_duration", ProgramDuration(full_text)>> >>))


\* ------------------------------------------ the extractors, applied
\* the lines of job texts: those above and a type alone, a type with no
\* company before the separator, a line that begins with a year, an event
\* header with a bracketed place, a date range written as a bullet item
JobLines ==
    {<<"-", " ", "N", "o", "v", " ", "2", "0", "2", "2", " ", "-", " ", "J", "a", "n", " ", "2", "0", "2", "5">>,
     <<"C", "o", "m", "m", "u", "n", "i", "t", "y", " ", "L", "e", "a", "d">>,
     <<"E", "k", "o", "L", "a", "n", "c", "e", " ", Midot, " ", "p", "a", "r", "t", "-", "t", "i", "m", "e">>,
     <<"N", "o", "v", " ", "2", "0", "2", "2", " ", "-", " ", "J", "a", "n", " ", "2", "0", "2", "5">>,
     <<"G", "e", "r", "m", "a", "n", "y", " ", Midot, " ", "R", "e", "m", "o", "t", "e">>,
     <<"F", "u", "l", "l", "-", "t", "i", "m", "e">>,
     <<Midot, " ", "F", "u", "l", "l", "-", "t", "i", "m", "e">>,
     <<"A", "C", "M", "E", " ", "L", "A", "B", "S", " ", "L", "T", "D">>,
     <<"-", " ", "B", "u", "i", "l", "t", " ", "t", "h", "e", " ", "s", "i", "t", "e">>,
     <<"2", "0", "2", "5", " ", "R", "e", "p", "o", "r", "t">>,
     <<"B", "I", "T", "C", "O", "I", "N", " ", "P", "I", "Z", "Z", "A", " ", "D", "A", "Y", " ", "F", "E", "S", "T", " ", "2", "0", "2", "5", ".", " ", "P", "a", "n", "-", "A", "f", "r", "i", "c", "a", " ", "(", "R", "e", "m", "o", "t", "e", ")">>,
     <<" ", " ", " ">>}

\* the lines of certificate texts
CertificateLines ==
    {<<"f", "r", "e", "e", "C", "o", "d", "e", "C", "a", "m", "p">>,
     <<"T", "h", "i", "s", " ", "c", "e", "r", "t", "i", "f", "i", "e", "s", " ", "t", "h", "a", "t">>,
     <<"J", "a", "n", "e", " ", "D", "o", "e">>,
     <<"h", "a", "s", " ", "s", "u", "c", "c", "e", "s", "s", "f", "u", "l", "l", "y", " ", "c", "o", "m", "p", "l", "e", "t", "e", "d">>,
     <<"D", "e", "v", "e", "l", "o", "p", "e", "r", " ", "C", "e", "r", "t", "i", "f", "i", "c", "a", "t", "i", "o", "n">>,
     <<"D", "e", "c", "e", "m", "b", "e", "r", " ", "5", ",", " ", "2", "0", "2", "3">>,
     <<"Q", "u", "i", "n", "c", "y", " ", "L", "a", "r", "s", "o", "n">>,
     <<"E", "x", "e", "c", "u", "t", "i", "v", "e", " ", "D", "i", "r", "e", "c", "t", "o", "r">>,
     <<"h", "t", "t", "p", "s", ":", "/", "/", "f", "c", "c", ".", "o", "r", "g", "/", "c", "/", "1">>,
     <<"3", "0", "0", " ", "h", "o", "u", "r", "s">>}

ExtractInit ==
    /\ Quiet
    /\ \E text \in TextsOf(JobLines) \cup TextsOf(CertificateLines) :
         call = [fn |-> "extract", pc |-> "called", text |-> text]

ExtractLinkedin ==
    /\ call.fn = "extract" /\ call.pc = "called"
    /\ call' = [fn |-> "extract_linkedin_job", pc |-> "returned", text |-> call.text,
                out |-> extract_linkedin_job(call.text)]
    /\ UNCHANGED <<ANTHROPIC_API_KEY, _CACHE, pc, req, attempts, attemptLog, lastReply,
                   api_response, outcome, response, hadEntry, firstResult, waits,
                   afterWriters, stats>>

ExtractResumeBlock ==
    /\ call.fn = "extract" /\ call.pc = "called"
    /\ call' = [fn |-> "extract_resume_block_job", pc |-> "returned", text |-> call.text,
                out |-> extract_resume_block_job(call.text)]
    /\ UNCHANGED <<ANTHROPIC_API_KEY, _CACHE, pc, req, attempts, attemptLog, lastReply,
                   api_response, outcome, response, hadEntry, firstResult, waits,
                   afterWriters, stats>>

ExtractGeneric ==
    /\ call.fn = "extract" /\ call.pc = "called"
    /\ call' = [fn |-> "extract_generic_job", pc |-> "returned", text |-> call.text,
                out |-> extract_generic_job(call.text)]
    /\ UNCHANGED <<ANTHROPIC_API_KEY, _CACHE, pc, req, attempts, attemptLog, lastReply,
                   api_response, outcome, response, hadEntry, firstResult, waits,
                   afterWriters, stats>>

ExtractCertificate ==
    /\ call.fn = "extract" /\ call.pc = "called"
    /\ call' = [fn |-> "extract_certificate", pc |-> "returned", text |-> call.text,
                out |-> extract_certificate(call.text)]
    /\ UNCHANGED <<ANTHROPIC_API_KEY, _CACHE, pc, req, attempts, attemptLog, lastReply,
                   api_response, outcome, response, hadEntry, firstResult, waits,
                   afterWriters, stats>>

ExtractNext ==
    \/ ExtractLinkedin
    \/ ExtractResumeBlock
    \/ ExtractGeneric
    \/ ExtractCertificate

ExtractSpec == ExtractInit /\ [][ExtractNext]_vars

\* ================================================================ claims
Done(p) == pc[p] = "done"
\* extract_proof returned a result to the view
Returned(p) == Done(p) /\ outcome[p] # NoOutcome /\ IsOk(outcome[p])
ResultOf(p) == outcome[p][2]
Last(s) == s[Len(s)]
Range(s) == {s[i] : i \in 1..Len(s)}
AllTransient(log) == Len(log) >= 1 /\ \A i \in 1..Len(log) : log[i] = "transient"

ButCacheHit(d) == {d[2][i] : i \in {j \in 1..Len(d[2]) : d[2][j][1] # "cache_hit"}}

\* C2: a successful call that began with no cache entry for its bytes
\* returns cache_hit false; a successful call that began with an entry
\* returns cache_hit true and, in every other field, the values the storing
\* call returned.
C2_CacheIdempotence ==
    \A p \in Procs : Returned(p) =>
      LET r     == ResultOf(p)
          first == firstResult[_image_hash(req[p].bytes)]
      IN /\ ~hadEntry[p] => DictAt(r, "cache_hit") = JBool(FALSE)
         /\ (hadEntry[p] /\ first # Absent) =>
              /\ DictAt(first, "cache_hit") = JBool(FALSE)
              /\ DictAt(r, "cache_hit") = JBool(TRUE)
              /\ DictKeys(r) = DictKeys(first)
              /\ ButCacheHit(r) = ButCacheHit(first)

C2_Witness ==
    \E p \in Procs :
      /\ Returned(p) /\ hadEntry[p]
      /\ firstResult[_image_hash(req[p].bytes)] # Absent
      /\ DictAt(ResultOf(p), "cache_hit") = JBool(TRUE)
      /\ DictAt(ResultOf(p), "proof_type") = JStr(req[p].proof_type)

\* C3: a call with an unrecognized proof_type, or made with no credential
\* configured, fails with PermanentAPIError and attempts no service call,
\* whatever the cache holds.
C3_RejectsInvalid ==
    \A p \in Procs :
      (Done(p) /\ outcome[p] # NoOutcome
         /\ (req[p].proof_type \notin PROMPTS \/ ~Truthy(ANTHROPIC_API_KEY))) =>
        /\ outcome[p] = Raise("PermanentAPIError")
        /\ attempts[p] = 0

\* a declared field whose confidence is below 0.5, null or missing
LowOrMissing(result, f) ==
    LET conf == DictGet(result, "confidence")
    IN IF conf[1] # "obj" THEN TRUE
       ELSE IF ~DictHas(conf, f) THEN TRUE
       ELSE LET s == DictAt(conf, f)
            IN s[1] = "null" \/ (s[1] = "num" /\ s[2] < 5)

ListedLow(result) == {item[2] : item \in Range(DictAt(result, "low_confidence_fields")[2])}

\* C4: in every returned result low_confidence_fields holds exactly the
\* declared fields of its proof type whose confidence is below 0.5, null
\* or missing, and needs_review is true iff there is such a field.
C4_LowConfidenceExact ==
    \A p \in Procs : Returned(p) =>
      LET r        == ResultOf(p)
          declared == Range(DeclaredFields(DictAt(r, "proof_type")[2]))
          expected == {f \in declared : LowOrMissing(r, f)}
      IN /\ ListedLow(r) = expected
         /\ DictAt(r, "needs_review") = JBool(expected # {})

\* C5: every returned result, fresh or from the cache, has
\* needs_review = (low_confidence_fields is non-empty).
C5_NeedsReviewIffLow ==
    \A p \in Procs : Returned(p) =>
      LET r == ResultOf(p)
      IN DictAt(r, "needs_review") = JBool(Len(DictAt(r, "low_confidence_fields")[2]) > 0)

C5_Witness ==
    \E p \in Procs :
      /\ Returned(p)
      /\ DictAt(ResultOf(p), "cache_hit") = JBool(TRUE)
      /\ DictAt(ResultOf(p), "needs_review") = JBool(TRUE)
      /\ Len(DictAt(ResultOf(p), "low_confidence_fields")[2]) = 1

\* C6: a call of extract_proof ends with a result, a PermanentAPIError or
\* a TransientAPIError, and with nothing else.
C6_OnlyDeclaredErrors ==
    \A p \in Procs :
      (Done(p) /\ outcome[p] # NoOutcome) =>
        \/ IsOk(outcome[p])
        \/ outcome[p][2] \in {"PermanentAPIError", "TransientAPIError"}

\* the attempt returned a text that is not one JSON document
Unparseable(api) ==
    LET raw == RawText(api)
    IN /\ IsOk(raw)
       /\ raw[2][1] = "text"
       /\ ~IsOk(JsonLoads(StripFences(raw[2][2])))

\* C7: when an attempt succeeds and its text is not parseable JSON, the
\* call fails with PermanentAPIError and that attempt was its last one.
C7_ParseFailureNotRetried ==
    \A p \in Procs :
      (Done(p) /\ Len(attemptLog[p]) >= 1 /\ Last(attemptLog[p]) = "response"
         /\ Unparseable(api_response[p])) =>
        /\ outcome[p] = Raise("PermanentAPIError")
        /\ response[p].status = 400
        /\ attempts[p] = Len(attemptLog[p])
        /\ \A i \in 1..(Len(attemptLog[p]) - 1) : attemptLog[p][i] = "transient"

C7_Witness ==
    \E p \in Procs :
      /\ Done(p) /\ attempts[p] = 2 /\ attemptLog[p] = <<"transient", "response">>
      /\ Unparseable(api_response[p])
      /\ outcome[p] = Raise("PermanentAPIError")

\* C8: 429 and 5xx are transient, 401 and 400 permanent, a timeout or a
\* connection failure transient, every other non-2xx status permanent, and
\* only a 2xx status yields a response.
C8_StatusClasses ==
    \A p \in Procs : lastReply[p].kind # "none" =>
      LET r   == lastReply[p]
          cls == Last(attemptLog[p])
      IN /\ r.kind \in {"timeout", "connection"} => cls = "transient"
         /\ (r.kind = "http" /\ (r.status = 429 \/ (500 <= r.status /\ r.status < 600))) =>
              cls = "transient"
         /\ (r.kind = "http" /\ r.status \in {400, 401}) => cls = "permanent"
         /\ (r.kind = "http" /\ r.status # 429 /\ ~(200 <= r.status /\ r.status < 300)
               /\ ~(500 <= r.status /\ r.status < 600)) => cls = "permanent"
         /\ cls = "response" => (r.kind = "http" /\ 200 <= r.status /\ r.status < 300)

\* C9: in every 200 response validation_hash is null iff needs_review.
C9_HashOnlyWhenTrusted ==
    \A p \in Procs : response[p].status = 200 =>
      LET body == response[p].body
      IN (DictAt(body, "validation_hash") = JNull)
           <=> Truthy(DictAt(DictAt(body, "extracted_data"), "needs_review"))

C9_Witness ==
    \E p \in Procs :
      /\ response[p].status = 200
      /\ DictAt(response[p].body, "needs_review") = JBool(TRUE)
      /\ DictAt(response[p].body, "validation_hash") = JNull

\* the results the program holds: what calls returned and what is cached
HeldResults ==
    {ResultOf(p) : p \in {q \in Procs : Returned(q)}}
      \cup {_CACHE[k] : k \in {c \in CacheKeys : _CACHE[c] # Absent}}

DataItems(d) == {d[2][i] : i \in {j \in 1..Len(d[2]) : d[2][j][1] \notin MetaKeys}}
DataOrder(d) == SelectSeq(d[2], IsDataItem)

C11_CallerEditsNotObserved ==
    /\ \A k \in CacheKeys :
         _CACHE[k] # Absent => ButCacheHit(_CACHE[k]) = ButCacheHit(firstResult[k])
    /\ \A p \in Procs :
         (Done(p) /\ hadEntry[p] /\ response[p].status = 200) =>
           ButCacheHit(DictAt(response[p].body, "extracted_data"))
             = ButCacheHit(firstResult[_image_hash(req[p].bytes)])

\* C12: a call that began with its bytes in the cache attempts no service
\* call, sleeps for none, parses no response, and ends by returning a
\* result, never by failing with TransientAPIError.
C12_HitSkipsServiceAndParsing ==
    \A p \in Procs : hadEntry[p] =>
      /\ pc[p] \in {"wrapper", "hit", "done"}
      /\ attempts[p] = 0
      /\ attemptLog[p] = <<>>
      /\ waits[p] = <<>>
      /\ api_response[p] = JNull
      /\ Done(p) => (Returned(p) /\ outcome[p] # Raise("TransientAPIError"))

C12_Witness ==
    \E p \in Procs :
      /\ hadEntry[p] /\ Returned(p)
      /\ attempts[p] = 0 /\ api_response[p] = JNull
      /\ DictAt(ResultOf(p), "cache_hit") = JBool(TRUE)
      /\ response[p].status = 200

\* C19: the cache is keyed by the content hash alone. A call for cached
\* bytes returns the stored entry whatever proof type it asks for: the
\* stored fields, the stored proof_type, cache_hit = true, and no service
\* call. An entry, once stored, stays until clear_cache empties the cache.
C19_KeyedByContentOnly ==
    /\ \A p \in Procs : (Returned(p) /\ hadEntry[p]) =>
         LET stored == firstResult[_image_hash(req[p].bytes)]
         IN /\ stored # Absent
            /\ ButCacheHit(ResultOf(p)) = ButCacheHit(stored)
            /\ DictAt(ResultOf(p), "proof_type") = DictAt(stored, "proof_type")
            /\ DictAt(ResultOf(p), "cache_hit") = JBool(TRUE)
            /\ attempts[p] = 0
    /\ \A k \in CacheKeys : firstResult[k] # Absent => _CACHE[k] # Absent

C19_Witness ==
    \E p \in Procs :
      /\ Returned(p) /\ hadEntry[p] /\ attempts[p] = 0
      /\ req[p].proof_type \in PROMPTS
      /\ DictAt(ResultOf(p), "proof_type") # JStr(req[p].proof_type)
      /\ DictAt(ResultOf(p), "cache_hit") = JBool(TRUE)
      /\ \A k \in CacheKeys : _CACHE[k] # Absent

\* a sleep is made only after an attempt that failed transiently, none is
\* longer than 10, and a call that ended on a permanent failure made none
\* after it
DelaysOnlyAfterTransient(p) ==
    /\ Len(waits[p]) <= Len(attemptLog[p])
    /\ \A i \in 1..Len(waits[p]) :
         attemptLog[p][i] = "transient" /\ waits[p][i] <= 10
    /\ (Done(p) /\ Len(attemptLog[p]) >= 1 /\ Last(attemptLog[p]) # "transient") =>
         Len(waits[p]) = Len(attemptLog[p]) - 1

\* C18: within a call a sleep comes only after a transient failure; the
\* sleep before the second attempt is 2, each later sleep is twice the one
\* before it, none exceeds 10, and a permanent failure is surfaced with no
\* sleep.
C18_BackoffDoubles ==
    \A p \in Procs :
      /\ DelaysOnlyAfterTransient(p)
      /\ Len(waits[p]) >= 1 => waits[p][1] = 2
      /\ \A i \in 2..Len(waits[p]) : waits[p][i] = 2 * waits[p][i - 1]

\* C13: whatever the interleaving of extract_proof calls with clear_cache
\* and get_cache_stats, a call that fails fails with the error of its own
\* checks or service attempts (PermanentAPIError or TransientAPIError), and
\* get_cache_stats ends with its statistics.
C13_InterleavingsAreSafe ==
    /\ \A p \in Procs :
         (Done(p) /\ outcome[p] # NoOutcome /\ ~IsOk(outcome[p])) =>
           outcome[p][2] \in {"PermanentAPIError", "TransientAPIError"}
    /\ stats.pc = "done" => IsOk(stats.out)

\* C14: two calls that missed for the same bytes each made a service call
\* of their own and returned cache_hit = false; the entry is the result of
\* the call that stored last; a call begun after them returns that entry's
\* data with cache_hit = true.
C14_LastWriterWins ==
    /\ \A p \in Procs : pc[p] = "parse" => attempts[p] >= 1
    /\ \A p \in Procs : Returned(p) =>
         (attempts[p] >= 1 <=> DictAt(ResultOf(p), "cache_hit") = JBool(FALSE))
    /\ \A k \in CacheKeys :
         firstResult[k] # Absent => _CACHE[k] = DictCopy(firstResult[k])
    /\ \A p \in Procs : (Done(p) /\ afterWriters[p]) =>
         /\ Returned(p)
         /\ ButCacheHit(ResultOf(p)) = ButCacheHit(_CACHE[_image_hash(req[p].bytes)])
         /\ DictAt(ResultOf(p), "cache_hit") = JBool(TRUE)

C14_Witness ==
    \E p \in Procs, q \in Procs :
      /\ p # q /\ Returned(p) /\ Returned(q)
      /\ req[p].bytes = req[q].bytes
      /\ attempts[p] >= 1 /\ attempts[q] >= 1
      /\ DictAt(ResultOf(p), "cache_hit") = JBool(FALSE)
      /\ DictAt(ResultOf(q), "cache_hit") = JBool(FALSE)
      /\ ResultOf(p) # ResultOf(q)
      /\ _CACHE[_image_hash(req[p].bytes)] = DictCopy(ResultOf(q))

\* str ends with tail
EndsWith(str, tail) ==
    Len(str) >= Len(tail) /\ SubSeq(str, Len(str) - Len(tail) + 1, Len(str)) = tail

KnownExtensions == {<<"j", "p", "g">>, <<"j", "p", "e", "g">>, <<"p", "n", "g">>, <<"g", "i", "f">>, <<"w", "e", "b", "p">>, <<"p", "d", "f">>}
TypeOfExtension(e) ==
    CASE e \in {<<"j", "p", "g">>, <<"j", "p", "e", "g">>} -> "image/jpeg"
      [] e = <<"p", "n", "g">>  -> "image/png"
      [] e = <<"g", "i", "f">>  -> "image/gif"
      [] e = <<"w", "e", "b", "p">> -> "image/webp"
      [] e = <<"p", "d", "f">>  -> "application/pdf"

\* C15: the resolved type is always one of the five accepted types; a
\* declared type among them is returned unchanged whatever the file name;
\* otherwise the type of the file name's extension (in any letter case) is
\* returned, and image/jpeg when the name ends in no known extension.
C15_MimeResolution ==
    (call.fn = "_resolve_mime_type" /\ call.pc = "returned") =>
      /\ call.out \in allowed
      /\ call.mime_type \in allowed => call.out = call.mime_type
      /\ call.mime_type \notin allowed =>
           /\ \A e \in KnownExtensions :
                EndsWith(Lower(call.filename), <<".">> \o e) => call.out = TypeOfExtension(e)
           /\ (\A e \in KnownExtensions : ~EndsWith(Lower(call.filename), <<".">> \o e)) =>
                call.out = "image/jpeg"

C15_Witness ==
    /\ call.fn = "_resolve_mime_type" /\ call.pc = "returned"
    /\ call.mime_type = "IMAGE/PNG"
    /\ call.filename = <<"s", "c", "a", "n">> \o <<".">> \o <<"P", "D", "F">>
    /\ call.out = "application/pdf"

SchemaKinds == {"linkedin", "resume_block", "generic"}
IsBlank(text) == \A i \in 1..Len(text) : InClass(text[i], "space")

JobExtractors == {"extract_linkedin_job", "extract_resume_block_job", "extract_generic_job"}
Extractors == JobExtractors \cup {"extract_certificate"}
FieldNames(fn) ==
    CASE fn = "extract_linkedin_job" ->
           <<"schema", "job_title", "company", "employment_type", "date_range", "location">>
      [] fn \in {"extract_resume_block_job", "extract_generic_job"} ->
           <<"schema", "job_title", "company", "employment_type", "date_range">>
      [] fn = "extract_certificate" ->
           <<"certificate_title", "recipient_name", "issuer", "issuer_signatory",
             "issuer_title", "issue_date", "credential_type", "verification_url",
             "program_duration">>
KeysInOrder(d) == [i \in 1..Len(d[2]) |-> d[2][i][1]]
IsFilled(v) == v[1] = "str" /\ Strip(v[2]) # <<>>

\* C17: every extractor returns, for every text, a record with its full
\* set of field names; a field of a job extractor is null or a non-empty
\* string, a field of the certificate extractor is "Unknown" or another
\* non-empty string; for a text with no line every field but schema holds
\* its placeholder.
C17_ExtractorsTotal ==
    (call.pc = "returned" /\ call.fn \in Extractors) =>
      /\ IsOk(call.out)
      /\ KeysInOrder(call.out[2]) = FieldNames(call.fn)
      /\ \A f \in DictKeys(call.out[2]) :
           LET v == DictAt(call.out[2], f)
           IN /\ IF call.fn \in JobExtractors THEN v = JNull \/ IsFilled(v) ELSE IsFilled(v)
              /\ (IsBlank(call.text) /\ f # "schema") =>
                   v = (IF call.fn \in JobExtractors THEN JNull ELSE JStr(Unknown))

\* C20: extract_linkedin_job takes company and employment_type from the
\* first line after the title alone: with no part of that line holding an
\* employment type both are null, whatever the later lines hold; else
\* employment_type is the first such part and company the first other part
\* of that line.
C20_CompanyLineOnly ==
    (call.pc = "returned" /\ call.fn = "extract_linkedin_job") =>
      LET lines   == StrippedLines(call.text)
          parts   == IF Len(lines) >= 2 THEN SplitOnSeparator(lines[2]) ELSE <<>>
          typed   == {i \in 1..Len(parts) : HasEmploymentType(parts[i])}
          company == DictAt(call.out[2], "company")
          employment_type == DictAt(call.out[2], "employment_type")
      IN IF typed = {} THEN company = JNull /\ employment_type = JNull
         ELSE LET i      == MinOf(typed)
                  others == {j \in 1..Len(parts) : j # i}
              IN /\ employment_type = JStr(Strip(parts[i]))
                 /\ company = (IF others = {} THEN JNull
                               ELSE JStr(Strip(parts[MinOf(others)])))

\* C21: in extract_resume_block_job the search for job_title over the lines
\* after the first stops at the first of them that starts with a bullet
\* character: a job_title that is not null is a line after the first that
\* lies before every bulleted line after the first, is not the recorded
\* date-range line, is not an all-capitals line and is not an employment-type
\* tag shorter than 30 characters.
C21_TitleSearchStopsAtBullet ==
    (call.pc = "returned" /\ call.fn = "extract_resume_block_job") =>
      LET lines     == StrippedLines(call.text)
          job_title == DictAt(call.out[2], "job_title")
          bullets   == {b \in 2..Len(lines) : StartsWithBullet(lines[b])}
          eligible  == {i \in 2..Len(lines) :
                          /\ \A b \in bullets : i < b
                          /\ i # DateLine(lines)
                          /\ ~IsUpper(lines[i])
                          /\ ~(HasEmploymentType(lines[i]) /\ Len(lines[i]) < TypeTagMax)}
      IN job_title # JNull => \E i \in eligible : job_title = JStr(lines[i])

\* extract_proof raised to the view
Failed(p) == Done(p) /\ outcome[p] # NoOutcome /\ ~IsOk(outcome[p])
\* the service answered with a text that, its fences dropped, is not one
\* JSON document
NotOneDocument(api) ==
    LET raw == RawText(api)
    IN /\ IsOk(raw)
       /\ raw[2][1] = "text"
       /\ LET rest == StripFences(raw[2][2])
          IN Len(rest) # 1 \/ rest[1][1] # "json"

\* C22: a call of extract_proof that fails leaves the cache as it was when
\* the call began. No step of a call before its end changes the cache, nor
\* does the step in which it raises; a response that is not parseable makes
\* the call raise with the cache unchanged; a call that has failed has no
\* entry for its bytes, and a lookup that finds no entry, with a credential
\* and a known proof type, goes on to call the service.
C22_FailureLeavesCache ==
    /\ [](\A p \in Procs : Failed(p) => _CACHE[_image_hash(req[p].bytes)] = Absent)
    /\ [][\A p \in Procs :
            /\ (pc[p] \in {"wrapper", "call", "parse"}
                  /\ pc'[p] = "done" /\ ~IsOk(outcome'[p])) => _CACHE' = _CACHE
            /\ (pc[p] \in {"wrapper", "call"} /\ pc'[p] \in {"call", "parse"}) =>
                 _CACHE' = _CACHE
            /\ (pc[p] = "parse" /\ NotOneDocument(api_response[p])) =>
                 /\ _CACHE' = _CACHE
                 /\ pc'[p] = "done" /\ ~IsOk(outcome'[p])
            /\ (pc[p] = "wrapper" /\ _CACHE[_image_hash(req[p].bytes)] = Absent
                  /\ Truthy(ANTHROPIC_API_KEY) /\ req[p].proof_type \in PROMPTS) =>
                 pc'[p] = "call"
       ]_vars

\* a call failed after three transient failures while another file's result
\* stays cached
C22_Witness ==
    \E p \in Procs :
      /\ Failed(p) /\ attempts[p] = MaxAttempts
      /\ outcome[p] = Raise("TransientAPIError")
      /\ _CACHE[_image_hash(req[p].bytes)] = Absent
      /\ \E k \in CacheKeys : _CACHE[k] # Absent

====
